---- MODULE Spec2Model ----
(***************************************************************************)
(* Progressive Sample Consensus (PROSAC): a model of                       *)
(* pcl::ProgressiveSampleConsensus<PointT>::computeModel                   *)
(* (src/segmentation/include/pcl/segmentation/sac_segmentation.h,          *)
(* lines 397-584) as a state machine.  One behaviour is one call of        *)
(* computeModel on a freshly constructed engine bound to a sample          *)
(* consensus model; pc is the position inside the function.                *)
(*                                                                         *)
(* Numbers.  The float locals n, n_star and T_prime_n only ever hold whole *)
(* numbers and are integers here.  T_n and epsilon_n_star are floats that  *)
(* hold fractions; they are carried as exact fractions <<num, den>> in     *)
(* lowest terms.  Comparing two such fractions gives the same answer as    *)
(* comparing their single-precision quotients, because distinct fractions  *)
(* of integers this small round to distinct floats.  <<1, 0>> is +inf and  *)
(* <<0, 0>> is NaN (a division by zero, lines 413 and 421).  T_n carries   *)
(* no rounding error here, so that T_prime_n after a growth can differ by  *)
(* one from its single-precision value (N = 5, m = 3: 30001 for 30002);    *)
(* both are far beyond the trials a behaviour of the model runs.  The      *)
(* unused locals I_n_star and I_n_star_min are left out.                   *)
(*                                                                         *)
(* Specifications.  Spec is the call of computeModel.  SpecSeg is the      *)
(* SACSegmentation object (lines 62-258): its constructor and setters.     *)
(* SpecBudget is the update of epsilon_n_star and k_n_star (lines 543-558) *)
(* on its own, for index sets of up to 400 elements.                       *)
(* SpecReuse is a second call of computeModel on an engine in which an     *)
(* earlier successful call has left its results.                           *)
(***************************************************************************)
EXTENDS Integers, Sequences, FiniteSets

(***************************************************************************)
(* Bounds of the model.                                                    *)
(***************************************************************************)
\* largest number of indices in the Sample Index Set
MaxN == 4
\* largest minimum sample size of the model
MaxM == 2
\* largest value of max_iterations_
MaxIterCap == 1
\* a trial is started only while iterations_ is below this
MaxTrials == 3

(***************************************************************************)
(* Program constants.                                                      *)
(***************************************************************************)
\* float T_N = 200000 (line 408)
T_N == 200000
\* the value threshold_ holds while no threshold was set (line 401)
DBL_MAX == 2147483647

VARIABLES
  \* the sample consensus model: sac_model_->indices_, getSampleSize ()
  indices_, sample_size,
  \* members of the engine
  threshold_, max_iterations_, iterations_, model_, model_coefficients_, inliers_,
  \* locals of computeModel.  The vectors inliers and model_coefficients are
  \* written and consumed within one step (EstimateOk) and are not state;
  \* I_N keeps the size of the last inlier vector.
  N, m, T_n, T_prime_n, I_N_best, n, n_star, epsilon_n_star, k_n_star,
  index_pool, selection, I_N,
  \* position in computeModel, its return value, and whether an element
  \* outside the Sample Index Set has been read
  pc, ret, oob_read,
  \* the SACSegmentation object: its members, and whether no setter has
  \* been called on it yet
  seg

vars == <<indices_, sample_size, threshold_, max_iterations_, iterations_,
          model_, model_coefficients_, inliers_, N, m, T_n, T_prime_n,
          I_N_best, n, n_star, epsilon_n_star, k_n_star, index_pool,
          selection, I_N, pc, ret, oob_read, seg>>

members == <<model_, model_coefficients_, inliers_>>
config  == <<indices_, sample_size, threshold_, max_iterations_>>

(***************************************************************************)
(* Arithmetic helpers.                                                     *)
(***************************************************************************)
RECURSIVE GCD(_, _)
GCD(a, b) == IF b = 0 THEN a ELSE GCD(b, a % b)

Abs(a) == IF a < 0 THEN -a ELSE a

Max(a, b) == IF a < b THEN b ELSE a

Inf == <<1, 0>>
NaN == <<0, 0>>

\* the float quotient a/b of a >= 0 by b >= 0 as a fraction in lowest terms;
\* a/0 is +inf, 0/0 is NaN
Rat(a, b) == IF b = 0 THEN (IF a = 0 THEN NaN ELSE Inf)
             ELSE LET g == GCD(Abs(a), b) IN <<a \div g, b \div g>>

RMul(x, y) == Rat(x[1] * y[1], x[2] * y[2])
RSub(x, y) == Rat(x[1] * y[2] - y[1] * x[2], x[2] * y[2])
\* x > y; false when either side is NaN, as for floats
RGreater(x, y) == x[2] # 0 /\ y[2] # 0 /\ x[1] * y[2] > y[1] * x[2]
\* ceil (x)
RCeil(x) == -((-x[1]) \div x[2])

RECURSIVE Pow(_, _)
Pow(b, e) == IF e = 0 THEN 1 ELSE b * Pow(b, e - 1)

RECURSIVE Choose(_, _)
Choose(a, k) == IF k = 0 THEN 1
                ELSE IF k > a THEN 0
                ELSE Choose(a - 1, k - 1) + Choose(a - 1, k)

Range(s) == {s[i] : i \in 1..Len(s)}
Front(s) == SubSeq(s, 1, Len(s) - 1)

\* the elements of a set of integers in ascending order (std::sort, line 503)
RECURSIVE Sorted(_)
Sorted(S) == IF S = {} THEN <<>>
             ELSE LET hi == CHOOSE x \in S : \A y \in S : y <= x
                  IN Append(Sorted(S \ {hi}), hi)

(***************************************************************************)
(* The pure computations of computeModel.                                  *)
(***************************************************************************)
\* lines 411-413: T_n = T_N * prod_{i < m} (m - i) / (N - i).  At i = N the
\* divisor is 0 and the positive quotient is +inf, which every later factor
\* (N - i wraps around to a large unsigned value) leaves +inf.
RECURSIVE TnLoop(_, _, _, _)
TnLoop(T, i, size, sample) ==
  IF i = sample THEN T
  ELSE IF i >= size THEN Inf
  ELSE TnLoop(RMul(T, Rat(sample - i, size - i)), i + 1, size, sample)

\* line 421: epsilon_n_star = (float)I_n_star / n_star with I_n_star = 0
InitialEpsilon(size) == IF size = 0 THEN NaN ELSE <<0, 1>>

\* the check of line 401 left out
NoThresholdSet_Missing(t) == FALSE

\* line 401: no threshold was set
NoThresholdSet(t) == t = DBL_MAX

\* line 447 never true: the pool is not grown
GrowPool_Never(it, Tp, pool_n, pool_n_star) == FALSE

\* line 447 without its bound n < n_star
GrowPool_NoLimit(it, Tp, pool_n, pool_n_star) == it = Tp

\* line 447: the condition of the pool growth
GrowPool(it, Tp, pool_n, pool_n_star) == it = Tp /\ pool_n < pool_n_star

\* line 493 with >= for >
IsNewBest_OrEqual(count, best) == count >= best

\* line 493: the trial found more inliers than any before it
IsNewBest(count, best) == count > best

\* line 564: the user's cap on the number of trials is exceeded
CapReached(it, cap) == it > cap

\* line 575 with the test of an empty model left out
ModelFound_Always(sel) == TRUE

\* line 543: the scan found a better epsilon, with the comparison left out
BetterEpsilon_Always(best_eps, eps_star) == TRUE

\* line 543: the scan found a better epsilon
BetterEpsilon(best_eps, eps_star) == RGreater(best_eps, eps_star)

\* line 575: a best model was recorded
ModelFound(sel) == sel # <<>>

\* 20 * P (X <= k) * 10^p for X binomial (p, 0.1)
RECURSIVE CdfSum(_, _)
CdfSum(p, k) == IF k < 0 THEN 0
                ELSE CdfSum(p, k - 1) + 20 * Choose(p, k) * Pow(9, p - k)

\* line 531: quantile (complement (binomial_distribution<float>(p, 0.1), 0.05)),
\* the least k with P (X <= k) >= 0.95 (a whole number, so ceil keeps it)
RECURSIVE QuantileFrom(_, _)
QuantileFrom(p, k) == IF CdfSum(p, k) >= 19 * Pow(10, p) THEN k
                      ELSE QuantileFrom(p, k + 1)

\* lines 529-531: I_possible_n_star_min
I_possible_n_star_min(possible_n_star, sample) ==
  sample + QuantileFrom(possible_n_star, 0)

\* lines 507-540: the scan of the sorted inliers from the last one down.
\* srt is the sorted inlier vector, idx the position of last_inlier (which is
\* also I_possible_n_star), best the record of possible_n_star_best,
\* I_possible_n_star_best and epsilon_possible_n_star_best.
RECURSIVE Scan(_, _, _, _, _)
Scan(srt, idx, best, eps_star, sample) ==
  IF idx = 0 THEN best
  ELSE LET possible_n_star == srt[idx] + 1
           epsilon_possible_n_star == Rat(idx, possible_n_star)
       IN IF possible_n_star <= sample THEN best
          ELSE IF RGreater(epsilon_possible_n_star, eps_star)
                  /\ RGreater(epsilon_possible_n_star, best.eps)
               THEN IF idx < I_possible_n_star_min(possible_n_star, sample)
                    THEN best
                    ELSE Scan(srt, idx - 1,
                              [n_star |-> possible_n_star, I |-> idx,
                               eps |-> epsilon_possible_n_star],
                              eps_star, sample)
               ELSE Scan(srt, idx - 1, best, eps_star, sample)

\* lines 507-508 and the scan: the best candidate of a trial with inliers inl
PossibleBest(inl, size, sample, eps_star) ==
  Scan(Sorted(inl), Cardinality(inl),
       [n_star |-> size, I |-> Cardinality(inl),
        eps |-> Rat(Cardinality(inl), size)],
       eps_star, sample)

\* line 519 with < for <=
ScanStop_Below(possible_n_star, sample) == possible_n_star < sample

\* line 519: the candidate is too small, the scan ends
ScanStop(possible_n_star, sample) == possible_n_star <= sample

\* lines 512-540 with a record of the pass: the sizes of the candidates
\* whose ratio was computed and compared (lines 523-526) in evaluated, how
\* the scan ended in stop ("end" of the inliers, candidate too "small",
\* feasibility "bound" failed) and the size of the candidate it ended at
RECURSIVE ScanTrace(_, _, _, _, _, _)
ScanTrace(srt, idx, best, eps_star, sample, evaluated) ==
  IF idx = 0
  THEN [best |-> best, evaluated |-> evaluated, stop |-> "end", at |-> 0]
  ELSE LET possible_n_star == srt[idx] + 1
           epsilon_possible_n_star == Rat(idx, possible_n_star)
           seen == evaluated \cup {possible_n_star}
       IN IF ScanStop(possible_n_star, sample)
          THEN [best |-> best, evaluated |-> evaluated, stop |-> "small",
                at |-> possible_n_star]
          ELSE IF RGreater(epsilon_possible_n_star, eps_star)
                  /\ RGreater(epsilon_possible_n_star, best.eps)
               THEN IF idx < I_possible_n_star_min(possible_n_star, sample)
                    THEN [best |-> best, evaluated |-> seen,
                          stop |-> "bound", at |-> possible_n_star]
                    ELSE ScanTrace(srt, idx - 1,
                                   [n_star |-> possible_n_star, I |-> idx,
                                    eps |-> epsilon_possible_n_star],
                                   eps_star, sample, seen)
               ELSE ScanTrace(srt, idx - 1, best, eps_star, sample, seen)

\* lines 507-540: the pass of the scan over the inliers inl of a new best
PossibleBestTrace(inl, size, sample, eps_star) ==
  ScanTrace(Sorted(inl), Cardinality(inl),
            [n_star |-> size, I |-> Cardinality(inl),
             eps |-> Rat(Cardinality(inl), size)],
            eps_star, sample, {})

\* line 555: (int)ceil (log (0.05) / log (bottom_log)) for
\* bottom_log = 1 - pow (num/den, sample), evaluated in the arithmetic of the
\* source for every fraction num/den with den <= 7 and sample <= 4, and for
\* 1/400 where bottom_log is not 1: <<num, den, sample, value>>
KLogTable ==
  {
     <<1, 400, 1, 1197>>, <<1, 400, 2, 478666>>,
     <<1, 2, 1, 5>>, <<1, 3, 1, 8>>, <<2, 3, 1, 3>>, <<1, 4, 1, 11>>,
     <<3, 4, 1, 3>>, <<1, 5, 1, 14>>, <<2, 5, 1, 6>>, <<3, 5, 1, 4>>,
     <<4, 5, 1, 2>>, <<1, 6, 1, 17>>, <<5, 6, 1, 2>>, <<1, 7, 1, 20>>,
     <<2, 7, 1, 9>>, <<3, 7, 1, 6>>, <<4, 7, 1, 4>>, <<5, 7, 1, 3>>,
     <<6, 7, 1, 2>>, <<1, 2, 2, 11>>, <<1, 3, 2, 26>>, <<2, 3, 2, 6>>,
     <<1, 4, 2, 47>>, <<3, 4, 2, 4>>, <<1, 5, 2, 74>>, <<2, 5, 2, 18>>,
     <<3, 5, 2, 7>>, <<4, 5, 2, 3>>, <<1, 6, 2, 107>>, <<5, 6, 2, 3>>,
     <<1, 7, 2, 146>>, <<2, 7, 2, 36>>, <<3, 7, 2, 15>>, <<4, 7, 2, 8>>,
     <<5, 7, 2, 5>>, <<6, 7, 2, 3>>, <<1, 2, 3, 23>>, <<1, 3, 3, 80>>,
     <<2, 3, 3, 9>>, <<1, 4, 3, 191>>, <<3, 4, 3, 6>>, <<1, 5, 3, 373>>,
     <<2, 5, 3, 46>>, <<3, 5, 3, 13>>, <<4, 5, 3, 5>>, <<1, 6, 3, 646>>,
     <<5, 6, 3, 4>>, <<1, 7, 3, 1027>>, <<2, 7, 3, 127>>, <<3, 7, 3, 37>>,
     <<4, 7, 3, 15>>, <<5, 7, 3, 7>>, <<6, 7, 3, 4>>, <<1, 2, 4, 47>>,
     <<1, 3, 4, 242>>, <<2, 3, 4, 14>>, <<1, 4, 4, 766>>, <<3, 4, 4, 8>>,
     <<1, 5, 4, 1871>>, <<2, 5, 4, 116>>, <<3, 5, 4, 22>>, <<4, 5, 4, 6>>,
     <<1, 6, 4, 3882>>, <<5, 6, 4, 5>>, <<1, 7, 4, 7191>>, <<2, 7, 4, 449>>,
     <<3, 7, 4, 88>>, <<4, 7, 4, 27>>, <<5, 7, 4, 10>>, <<6, 7, 4, 4>> }

KLog(eps, sample) ==
  (CHOOSE t \in KLogTable : t[1] = eps[1] /\ t[2] = eps[2] /\ t[3] = sample)[4]

\* lines 549 and 552: bottom_log = 1 - pow (eps, m) is 1, which it is exactly
\* when pow (eps, m) is at most 2^-25 and is lost in the subtraction from 1
BottomLogIsOne(eps, sample) ==
  \/ eps[1] = 0
  \/ Pow(eps[2], sample) \div Pow(eps[1], sample) >= 33554432

\* lines 549-555 without the floor of line 557
NewKNStar_NoFloor(eps, sample) ==
  IF eps[1] = eps[2] THEN 1
  ELSE IF BottomLogIsOne(eps, sample) THEN T_N
  ELSE KLog(eps, sample)

\* lines 549-557: the new k_n_star for the accepted epsilon_n_star = eps.
\* bottom_log is 0 exactly when eps is 1.
NewKNStar(eps, sample) ==
  LET k == IF eps[1] = eps[2] THEN 1
           ELSE IF BottomLogIsOne(eps, sample) THEN T_N
           ELSE KLog(eps, sample)
  IN Max(k, 2 * sample)

\* line 463: sac_model_->getSamples (iterations_, selection) with the pool as
\* the model's index set: sample elements at pairwise distinct positions of
\* the pool, in any order, or no element when no sample could be drawn
getSamples(pool, sample) ==
  {<<>>} \cup
  {[i \in 1..sample |-> pool[pos[i]]] :
     pos \in {q \in [1..sample -> 1..Len(pool)] :
                \A i, j \in 1..sample : i # j => q[i] # q[j]}}

\* the values an element read outside the index vector can have: one that is
\* an index of the cloud's first point, one that is beyond every index set
Garbage == {0, MaxN}

\* line 480: the coefficients computeModelCoefficients estimates from a
\* sample, when it succeeds.  They are a function of the sample; the vector
\* is represented by the sample it was estimated from.
computeModelCoefficients(sel) == <<"coefficients", sel>>

\* the Sample Index Set of a model over the first size points of the cloud
IndexSet(size) == [i \in 1..size |-> i - 1]

\* lines 435-438: what building the first pool of sample elements can give:
\* <<"ok", pool>> or <<"fault", <<>>>>.  With sample <= Len(idx) it is the
\* first sample elements of idx.  Otherwise operator[] (i) is read for
\* i >= Len(idx), outside the vector, which is undefined: the element read
\* is any value, or the read faults.
FirstPools(idx, sample) ==
  IF sample <= Len(idx)
  THEN {<<"ok", SubSeq(idx, 1, sample)>>}
  ELSE {<<"ok", [i \in 1..sample |-> IF i <= Len(idx) THEN idx[i] ELSE g[i]]>> :
          g \in [(Len(idx) + 1)..sample -> Garbage]}
       \cup {<<"fault", <<>>>>}

\* line 464 with <= for <
ForceNewest_OrEqual(Tp, it) == Tp <= it

\* line 464: the trial is past T'_n, the newest pool element is forced in
ForceNewest(Tp, it) == Tp < it

\* lines 464-468: what the forced inclusion can make of the drawn sample:
\* <<"ok", selection>> or <<"fault", <<>>>>.  pop_back () on an empty vector
\* is undefined: the end of the vector moves before its begin and push_back
\* moves it back, writing in front of the buffer and leaving the selection
\* empty, or a checked build of the library faults.
SamplingOutcomes(drawn, newest, forced) ==
  IF ~forced THEN {<<"ok", drawn>>}
  ELSE IF drawn = <<>> THEN {<<"ok", <<>>>>, <<"fault", <<>>>>}
  ELSE {<<"ok", Append(Front(drawn), newest)>>}

\* line 471 left out
SwapBack_Missing(model_indices, pool) == <<model_indices, pool>>

\* line 471: indices_->swap (index_pool) after the draw; model_indices is
\* the model's index vector (the pool at that point), pool the vector
\* index_pool (the full set at that point); the result is the pair after it
SwapBack(model_indices, pool) == <<pool, model_indices>>

\* lines 80-86 and 228-253: the members of a SACSegmentation after its
\* constructor, probability_ as a fraction.  The initialiser list names
\* every member but threshold_ (line 235), which is left uninitialised: its
\* value is indeterminate, t is any double.
Constructed(t) ==
  [model_type_ |-> -1, method_type_ |-> 0, threshold_ |-> t,
   optimize_coefficients_ |-> TRUE,
   radius_min_ |-> -DBL_MAX, radius_max_ |-> DBL_MAX, eps_angle_ |-> 0,
   axis_ |-> <<0, 0, 0>>, max_iterations_ |-> 50,
   probability_ |-> <<99, 100>>, fresh |-> TRUE]

\* the doubles an uninitialised threshold_ is drawn from
Indeterminate == {DBL_MAX, 0, 1}

\* the value of seg where no SACSegmentation is looked at
NoSegmentation == [fresh |-> FALSE]

(***************************************************************************)
(* The state after construction: an engine bound to a model, nothing run.  *)
(* The locals of computeModel do not exist yet and hold placeholders.      *)
(***************************************************************************)
Init ==
  /\ indices_ \in {IndexSet(size) : size \in 0..MaxN}
  /\ sample_size \in 1..MaxM
  /\ threshold_ \in {DBL_MAX, 1}
  /\ max_iterations_ \in 0..MaxIterCap
  /\ iterations_ = 0
  /\ model_ = <<>>
  /\ model_coefficients_ = <<>>
  /\ inliers_ = {}
  /\ N = 0 /\ m = 0 /\ T_n = <<0, 1>> /\ T_prime_n = 0 /\ I_N_best = 0
  /\ n = 0 /\ n_star = 0 /\ epsilon_n_star = <<0, 1>> /\ k_n_star = 0
  /\ index_pool = <<>> /\ selection = <<>> /\ I_N = 0
  /\ pc = "start" /\ ret = "none" /\ oob_read = FALSE
  /\ seg = NoSegmentation

(***************************************************************************)
(* lines 400-405: no threshold set, computeModel returns false at once.    *)
(***************************************************************************)
ThresholdUnset ==
  /\ pc = "start"
  /\ NoThresholdSet(threshold_)
  /\ pc' = "returned"
  /\ ret' = "false"
  /\ UNCHANGED <<config, iterations_, members, N, m, T_n, T_prime_n, I_N_best,
                 n, n_star, epsilon_n_star, k_n_star, index_pool, selection,
                 I_N, oob_read, seg>>

(***************************************************************************)
(* lines 407-438: the constants, the run state and the first pool.  With   *)
(* fewer than m indices the loop of lines 437-438 reads operator[] (i) for *)
(* i >= N, outside the vector: the element read is any value, or the read  *)
(* faults.                                                                 *)
(***************************************************************************)
Initialise ==
  /\ pc = "start"
  /\ ~NoThresholdSet(threshold_)
  /\ N' = Len(indices_)
  /\ m' = sample_size
  /\ T_n' = TnLoop(Rat(T_N, 1), 0, N', m')
  /\ T_prime_n' = 1
  /\ I_N_best' = 0
  /\ n' = m'
  /\ n_star' = N'
  /\ epsilon_n_star' = InitialEpsilon(n_star')
  /\ k_n_star' = T_N
  /\ iterations_' = 0
  /\ selection' = <<>>
  /\ I_N' = 0
  /\ oob_read' = (n' > N')
  /\ \E o \in FirstPools(indices_, n') :
       IF o[1] = "ok"
       THEN index_pool' = o[2] /\ pc' = "while"
       ELSE index_pool' = indices_ /\ pc' = "crashed"
  /\ UNCHANGED <<config, members, ret, seg>>

(***************************************************************************)
(* line 441: the loop condition fails.                                     *)
(***************************************************************************)
WhileExit ==
  /\ pc = "while"
  /\ ~(iterations_ < k_n_star)
  /\ pc' = "result"
  /\ UNCHANGED <<config, iterations_, members, N, m, T_n, T_prime_n, I_N_best,
                 n, n_star, epsilon_n_star, k_n_star, index_pool, selection,
                 I_N, ret, oob_read, seg>>

(***************************************************************************)
(* lines 441-458: a trial starts; step 1, the growth of the pool.          *)
(***************************************************************************)
Step1 ==
  /\ pc = "while"
  /\ iterations_ < k_n_star
  /\ iterations_ < MaxTrials
  /\ IF GrowPool(iterations_, T_prime_n, n, n_star)
     THEN /\ n' = n + 1
          /\ IF n' >= N
             THEN /\ pc' = "result"
                  /\ UNCHANGED <<index_pool, T_n, T_prime_n>>
             ELSE /\ index_pool' = Append(index_pool, indices_[n'])
                  /\ T_n' = RMul(T_n, Rat(n' + 1, n' + 1 - m))
                  /\ T_prime_n' = T_prime_n + RCeil(RSub(T_n', T_n))
                  /\ pc' = "step2"
     ELSE /\ pc' = "step2"
          /\ UNCHANGED <<n, index_pool, T_n, T_prime_n>>
  /\ UNCHANGED <<config, iterations_, members, N, m, I_N_best, n_star,
                 epsilon_n_star, k_n_star, selection, I_N, ret, oob_read, seg>>

(***************************************************************************)
(* lines 460-477: step 2.  The pool is swapped into the model (line 461,   *)
(* from there to line 471 the model's index vector is the old index_pool   *)
(* and index_pool is the full set), the sample is drawn from it, past T'_n *)
(* its last element is replaced by the newest element of the pool, and the *)
(* full index set is swapped back.  An empty selection leaves the loop.  A *)
(* fault in the forced inclusion leaves the pool swapped in.               *)
(***************************************************************************)
\* lines 473-477 with continue for break
AfterSampling_Continue(s) ==
  /\ selection' = s
  /\ pc' = IF s = <<>> THEN "while" ELSE "estimate"
  /\ indices_' = SwapBack(index_pool, indices_)[1]
  /\ index_pool' = SwapBack(index_pool, indices_)[2]

\* lines 471-477: the swap back and the test of an empty selection
AfterSampling(s) ==
  /\ selection' = s
  /\ pc' = IF s = <<>> THEN "result" ELSE "estimate"
  /\ indices_' = SwapBack(index_pool, indices_)[1]
  /\ index_pool' = SwapBack(index_pool, indices_)[2]

Step2 ==
  /\ pc = "step2"
  /\ \E drawn \in getSamples(index_pool, m) :
       \E o \in SamplingOutcomes(drawn, index_pool[n],
                                 ForceNewest(T_prime_n, iterations_)) :
         IF o[1] = "ok"
         THEN AfterSampling(o[2])
         ELSE /\ pc' = "crashed"
              /\ selection' = <<>>
              /\ indices_' = index_pool
              /\ index_pool' = indices_
  /\ UNCHANGED <<sample_size, threshold_, max_iterations_, iterations_,
                 members, N, m, T_n, T_prime_n, I_N_best, n, n_star,
                 epsilon_n_star, k_n_star, I_N, ret, oob_read, seg>>

(***************************************************************************)
(* lines 479-484: computeModelCoefficients fails.                          *)
(***************************************************************************)
\* lines 480-484 with the ++iterations_ of line 482 left out
EstimateFail_NotCounted ==
  /\ pc = "estimate"
  /\ pc' = "while"
  /\ UNCHANGED <<config, iterations_, members, N, m, T_n, T_prime_n, I_N_best,
                 n, n_star, epsilon_n_star, k_n_star, index_pool, selection,
                 I_N, ret, oob_read, seg>>

EstimateFail ==
  /\ pc = "estimate"
  /\ iterations_' = iterations_ + 1
  /\ pc' = "while"
  /\ UNCHANGED <<config, members, N, m, T_n, T_prime_n, I_N_best, n, n_star,
                 epsilon_n_star, k_n_star, index_pool, selection,
                 I_N, ret, oob_read, seg>>

(***************************************************************************)
(* lines 480-569: the estimate succeeds; the inliers of the whole index    *)
(* set are selected (inl stands for the local vector inliers, I_N is its   *)
(* size); a new best is saved and n_star's epsilon and k are re-derived;   *)
(* the counter advances and is checked against the cap.                    *)
(***************************************************************************)
EstimateOk ==
  /\ pc = "estimate"
  /\ \E inl \in SUBSET Range(indices_) :
       /\ I_N' = Cardinality(inl)
       /\ IF IsNewBest(I_N', I_N_best)
          THEN /\ I_N_best' = I_N'
               /\ inliers_' = inl
               /\ model_' = selection
               /\ model_coefficients_' = computeModelCoefficients(selection)
               /\ LET best == PossibleBest(inl, N, m, epsilon_n_star)
                  IN IF BetterEpsilon(best.eps, epsilon_n_star)
                     THEN /\ epsilon_n_star' = best.eps
                          /\ k_n_star' = NewKNStar(best.eps, m)
                     ELSE UNCHANGED <<epsilon_n_star, k_n_star>>
          ELSE UNCHANGED <<I_N_best, members, epsilon_n_star, k_n_star>>
  /\ iterations_' = iterations_ + 1
  /\ pc' = IF CapReached(iterations_', max_iterations_) THEN "result"
           ELSE "while"
  /\ UNCHANGED <<config, N, m, T_n, T_prime_n, n, n_star, index_pool,
                 selection, ret, oob_read, seg>>

(***************************************************************************)
(* lines 572-584: the result.                                              *)
(***************************************************************************)
Result ==
  /\ pc = "result"
  /\ IF ModelFound(model_)
     THEN /\ ret' = "true"
          /\ UNCHANGED inliers_
     ELSE /\ inliers_' = {}
          /\ ret' = "false"
  /\ pc' = "returned"
  /\ UNCHANGED <<config, iterations_, model_, model_coefficients_, N, m, T_n,
                 T_prime_n, I_N_best, n, n_star, epsilon_n_star, k_n_star,
                 index_pool, selection, I_N, oob_read, seg>>

Next ==
  \/ ThresholdUnset
  \/ Initialise
  \/ WhileExit
  \/ Step1
  \/ Step2
  \/ EstimateFail
  \/ EstimateOk
  \/ Result

Spec == Init /\ [][Next]_vars

(***************************************************************************)
(* The SACSegmentation object on its own: its constructor and its setters. *)
(* No engine exists yet (initSAC builds it in segment ()): the variables   *)
(* of computeModel keep their placeholders.                                *)
(***************************************************************************)
engine == <<indices_, sample_size, threshold_, max_iterations_, iterations_,
            model_, model_coefficients_, inliers_, N, m, T_n, T_prime_n,
            I_N_best, n, n_star, epsilon_n_star, k_n_star, index_pool,
            selection, I_N, pc, ret, oob_read>>

\* lines 80-86: the state after SACSegmentation ()
InitSeg ==
  /\ seg \in {Constructed(t) : t \in Indeterminate}
  /\ indices_ = <<>> /\ sample_size = 1 /\ threshold_ = DBL_MAX
  /\ max_iterations_ = 0 /\ iterations_ = 0
  /\ model_ = <<>> /\ model_coefficients_ = <<>> /\ inliers_ = {}
  /\ N = 0 /\ m = 0 /\ T_n = <<0, 1>> /\ T_prime_n = 0 /\ I_N_best = 0
  /\ n = 0 /\ n_star = 0 /\ epsilon_n_star = <<0, 1>> /\ k_n_star = 0
  /\ index_pool = <<>> /\ selection = <<>> /\ I_N = 0
  /\ pc = "constructed" /\ ret = "none" /\ oob_read = FALSE

\* line 95
setModelType ==
  /\ \E model \in {-1, 0} :
       seg' = [seg EXCEPT !.model_type_ = model, !.fresh = FALSE]
  /\ UNCHANGED engine

\* line 113
setMethodType ==
  /\ \E method \in {0, 1} :
       seg' = [seg EXCEPT !.method_type_ = method, !.fresh = FALSE]
  /\ UNCHANGED engine

\* line 123
setDistanceThreshold ==
  /\ \E threshold \in {0, 1, DBL_MAX} :
       seg' = [seg EXCEPT !.threshold_ = threshold, !.fresh = FALSE]
  /\ UNCHANGED engine

\* line 133
setMaxIterations ==
  /\ \E max_iterations \in {0, 1, 50} :
       seg' = [seg EXCEPT !.max_iterations_ = max_iterations,
                          !.fresh = FALSE]
  /\ UNCHANGED engine

\* line 143
setProbability ==
  /\ \E probability \in {<<1, 2>>, <<99, 100>>} :
       seg' = [seg EXCEPT !.probability_ = probability, !.fresh = FALSE]
  /\ UNCHANGED engine

\* line 153
setOptimizeCoefficients ==
  /\ \E optimize \in BOOLEAN :
       seg' = [seg EXCEPT !.optimize_coefficients_ = optimize,
                          !.fresh = FALSE]
  /\ UNCHANGED engine

\* lines 165-169
setRadiusLimits ==
  /\ \E min_radius, max_radius \in {-DBL_MAX, 0, DBL_MAX} :
       seg' = [seg EXCEPT !.radius_min_ = min_radius,
                          !.radius_max_ = max_radius, !.fresh = FALSE]
  /\ UNCHANGED engine

\* line 186
setAxis ==
  /\ \E ax \in {<<0, 0, 0>>, <<0, 0, 1>>} :
       seg' = [seg EXCEPT !.axis_ = ax, !.fresh = FALSE]
  /\ UNCHANGED engine

\* line 196
setEpsAngle ==
  /\ \E ea \in {0, 1} :
       seg' = [seg EXCEPT !.eps_angle_ = ea, !.fresh = FALSE]
  /\ UNCHANGED engine

NextSeg ==
  \/ setModelType
  \/ setMethodType
  \/ setDistanceThreshold
  \/ setMaxIterations
  \/ setProbability
  \/ setOptimizeCoefficients
  \/ setRadiusLimits
  \/ setAxis
  \/ setEpsAngle

SpecSeg == InitSeg /\ [][NextSeg]_vars

(***************************************************************************)
(* The trial budget as a function of the accepted inlier ratio: lines      *)
(* 419-422 and 543-558 on their own, for index sets too large for the      *)
(* trials to be enumerated.  A state is the point of a run with N indices  *)
(* and sample size m at which epsilon_n_star and k_n_star have the values  *)
(* shown; a step is the acceptance of a ratio I / p of a later best trial. *)
(***************************************************************************)
\* the sizes of the index set, and the pool sizes p of the candidates
BudgetSizes == (1..7) \cup {400}

\* the inlier counts I of the candidates of pool size p
BudgetCounts(p) == IF p <= 7 THEN 1..p ELSE {1}

\* lines 419-428: the state before the first trial
InitBudget ==
  /\ \E size \in BudgetSizes, sample \in 1..MaxM :
       /\ sample <= size
       /\ indices_ = <<>> /\ sample_size = sample
       /\ N = size /\ m = sample /\ n = sample /\ n_star = size
       /\ epsilon_n_star = InitialEpsilon(size)
  /\ k_n_star = T_N
  /\ threshold_ = 1 /\ max_iterations_ = 0 /\ iterations_ = 0
  /\ model_ = <<>> /\ model_coefficients_ = <<>> /\ inliers_ = {}
  /\ T_n = <<0, 1>> /\ T_prime_n = 0 /\ I_N_best = 0
  /\ index_pool = <<>> /\ selection = <<>> /\ I_N = 0
  /\ pc = "budget" /\ ret = "none" /\ oob_read = FALSE
  /\ seg = NoSegmentation

\* lines 543-558: a new best trial whose best candidate has I inliers among
\* the first p indices
AcceptEpsilon ==
  /\ pc = "budget"
  /\ \E p \in BudgetSizes : \E I \in BudgetCounts(p) :
       /\ p <= N
       /\ BetterEpsilon(Rat(I, p), epsilon_n_star)
       /\ epsilon_n_star' = Rat(I, p)
       /\ k_n_star' = NewKNStar(epsilon_n_star', m)
  /\ UNCHANGED <<config, iterations_, members, N, m, T_n, T_prime_n,
                 I_N_best, n, n_star, index_pool, selection, I_N, pc, ret,
                 oob_read, seg>>

NextBudget == AcceptEpsilon

SpecBudget == InitBudget /\ [][NextBudget]_vars

(***************************************************************************)
(* A second call of computeModel on the same engine.  The members model_,  *)
(* model_coefficients_, inliers_ and iterations_ hold what an earlier      *)
(* successful run on the same index set left (lines 495-500 and 561): a    *)
(* best sample of the first m indices and all indices as its inliers,      *)
(* after one trial.  The locals do not exist yet; the steps are those of   *)
(* the first call.                                                         *)
(***************************************************************************)
InitReuse ==
  /\ \E size \in 1..MaxN, sample \in 1..MaxM :
       /\ sample <= size
       /\ indices_ = IndexSet(size)
       /\ sample_size = sample
       /\ model_ = SubSeq(indices_, 1, sample)
       /\ model_coefficients_ = computeModelCoefficients(model_)
       /\ inliers_ = Range(indices_)
  /\ threshold_ \in {DBL_MAX, 1}
  /\ max_iterations_ \in 0..MaxIterCap
  /\ iterations_ = 1
  /\ N = 0 /\ m = 0 /\ T_n = <<0, 1>> /\ T_prime_n = 0 /\ I_N_best = 0
  /\ n = 0 /\ n_star = 0 /\ epsilon_n_star = <<0, 1>> /\ k_n_star = 0
  /\ index_pool = <<>> /\ selection = <<>> /\ I_N = 0
  /\ pc = "start" /\ ret = "none" /\ oob_read = FALSE
  /\ seg = NoSegmentation

SpecReuse == InitReuse /\ [][Next]_vars

(***************************************************************************)
(* Properties.                                                             *)
(***************************************************************************)
\* a threshold was set and computeModel has passed its initialisation
InRun == threshold_ # DBL_MAX /\ pc # "start"

\* the loop body is being executed: a trial is under way
InTrial == pc \in {"step2", "estimate"}

\* C1: with max_iterations_ = 0, a threshold set and N >= m, computeModel
\* executes no trial (no draw, no estimate, no inlier selection), records no
\* best result and returns false.
C1_ZeroCapRunsNoTrial ==
  (max_iterations_ = 0 /\ InRun /\ N >= m)
    => /\ ~InTrial
       /\ I_N_best = 0
       /\ model_ = <<>>
       /\ (pc = "returned" => ret = "false")

\* C2: the cap max_iterations_ wins on every path of the loop: whenever the
\* loop condition is evaluated again the counter has not passed the cap, also
\* after a trial whose coefficient estimate failed.
C2_CapWinsOnEveryPath ==
  (InRun /\ N >= m /\ pc = "while") => iterations_ <= max_iterations_

\* C3: with N < m computeModel returns false with no inliers, executes no
\* trial and reads no position outside 0..N-1 of the Sample Index Set.
C3_TooFewIndicesNoTrial ==
  (InRun /\ N < m)
    => /\ ~oob_read
       /\ ~InTrial
       /\ pc # "crashed"
       /\ (pc = "returned" => ret = "false" /\ inliers_ = {})

\* C4: with no threshold set the only step of computeModel is its return of
\* false: nothing is drawn, and the Sample Index Set, the pool, the iteration
\* counter and the stored best model, coefficients and inliers stay as they
\* were.
C4_UnsetThresholdFailsBeforeSampling ==
  [][threshold_ = DBL_MAX
       => /\ pc' = "returned"
          /\ ret' = "false"
          /\ UNCHANGED <<indices_, index_pool, selection, iterations_,
                         members>>]_vars

C4_Witness ==
  threshold_ = DBL_MAX /\ pc = "returned" /\ ret = "false" /\ Len(indices_) > 0

\* C5: on a fresh engine computeModel returns false, with no inliers, exactly
\* when no trial was accepted as best; with an accepted best the result step
\* returns true and leaves the stored selection, coefficients and inliers of
\* that best as they are, however the loop was left.
C5_FailureIffNoBestAccepted ==
  /\ [](pc = "returned"
          => /\ (ret = "false") <=> (I_N_best = 0)
             /\ (ret = "false" => inliers_ = {})
             /\ (ret = "true" => /\ model_ # <<>>
                                 /\ model_coefficients_ # <<>>
                                 /\ Cardinality(inliers_) = I_N_best))
  /\ [][(pc = "result" /\ I_N_best > 0)
          => (ret' = "true" /\ UNCHANGED members)]_vars

\* a run left through the cap on the trials after a best was accepted
C5_Witness ==
  /\ pc = "returned" /\ ret = "true"
  /\ iterations_ > max_iterations_
  /\ iterations_ < k_n_star

C7_PoolSizeBounds ==
  /\ []((InRun /\ N >= m) => (m <= n /\ n <= N))
  /\ [][(InRun /\ N >= m) => n' >= n]_vars

\* the pool has grown and a trial draws from it
C7_Witness ==
  InRun /\ N >= m /\ n > m /\ Len(index_pool) = n /\ pc = "estimate"

\* C8: once step (f) has updated k_n_star (it does so together with
\* epsilon_n_star, which is 0 until then), k_n_star >= 2 * m.
C8_BudgetFloor ==
  (InRun /\ epsilon_n_star[1] > 0) => k_n_star >= 2 * m

\* the update with the base term exactly 0, where only the floor gives 2 * m
C8_Witness ==
  InRun /\ epsilon_n_star = <<1, 1>> /\ k_n_star = 2 * m /\ m = MaxM

\* C9: a step in which no improved epsilon is accepted (no new best, or the
\* scan of the new best yields no epsilon above epsilon_n_star) leaves
\* k_n_star and epsilon_n_star unchanged.
C9_NoImprovementKeepsBudget ==
  [][(InRun
      /\ \/ I_N_best' = I_N_best
         \/ ~RGreater(PossibleBest(inliers_', N, m, epsilon_n_star).eps,
                      epsilon_n_star))
       => UNCHANGED <<k_n_star, epsilon_n_star>>]_vars

\* a new best whose scan yields no epsilon above epsilon_n_star
C9_Witness ==
  /\ InRun /\ I_N_best > 0 /\ I_N = I_N_best
  /\ RGreater(epsilon_n_star,
              PossibleBest(inliers_, N, m, InitialEpsilon(N)).eps)

\* C10: the best inlier count never decreases, and the stored best selection,
\* coefficients and inliers change only in a trial whose inlier count is
\* strictly greater than the best so far, to the values of that trial.
C10_BestCountMonotone ==
  [][InRun
       => /\ I_N_best' >= I_N_best
          /\ (members' # members
                => /\ pc = "estimate"
                   /\ I_N_best' > I_N_best
                   /\ I_N' = I_N_best'
                   /\ Cardinality(inliers_') = I_N_best'
                   /\ model_' = selection
                   /\ model_coefficients_'
                        = computeModelCoefficients(selection))]_vars

\* a later trial with fewer inliers than the best left the best in place
C10_Witness ==
  /\ InRun /\ iterations_ = 2
  /\ I_N_best > 0
  /\ I_N < I_N_best
  /\ Cardinality(inliers_) = I_N_best

\* C11: a run is a function of its inputs: in every state computeModel can be
\* in, the configuration, the index set and the draw handed to a step leave
\* exactly one outcome for it, so that two runs fed the same inputs go
\* through the same states and end with the same result.  The steps not
\* named here have one successor for each of their inputs by their form.
C11_RunIsFunctionOfInputs ==
  /\ (pc = "start" /\ ~NoThresholdSet(threshold_))
       => Cardinality(FirstPools(indices_, sample_size)) = 1
  /\ pc = "step2"
       => \A drawn \in getSamples(index_pool, m) :
            Cardinality(SamplingOutcomes(drawn, index_pool[n],
                          ForceNewest(T_prime_n, iterations_))) = 1

\* C12: a SACSegmentation on which no setter has been called has
\* max_iterations_ 50, probability_ 0.99, optimize_coefficients_ true, the
\* radius limits -DBL_MAX and DBL_MAX, a zero axis, eps_angle_ 0, and a
\* threshold_ that the engine's test for a missing threshold (line 401)
\* recognises as unset.
C12_FreshOrchestratorDefaults ==
  seg.fresh
    => /\ seg.max_iterations_ = 50
       /\ seg.probability_ = <<99, 100>>
       /\ seg.optimize_coefficients_
       /\ seg.radius_min_ = -DBL_MAX /\ seg.radius_max_ = DBL_MAX
       /\ seg.axis_ = <<0, 0, 0>>
       /\ seg.eps_angle_ = 0
       /\ NoThresholdSet(seg.threshold_)

\* C13: the growth of the pool ends the run only when growing by one would
\* take n past N; a growth that brings the pool to exactly N elements goes on
\* to the draw.
C13_GrowthStopsOnlyPastN ==
  [][(InRun /\ N >= m /\ pc = "while" /\ n' # n)
       => IF n' > N THEN pc' = "result" ELSE pc' = "step2"]_vars

\* C14: when a new best trial yields an accepted improved epsilon, n_star is
\* set together with epsilon_n_star and k_n_star, to the accepted candidate
\* pool size (one past the highest retained inlier index), and the growth
\* test n < n_star of later trials uses that value.
C14_NStarFollowsAcceptedEpsilon ==
  [][(InRun /\ epsilon_n_star' # epsilon_n_star)
       => n_star' = PossibleBest(inliers_', N, m, epsilon_n_star).n_star]_vars

C16_BudgetNeverAboveTN ==
  [][k_n_star' <= k_n_star /\ k_n_star' <= T_N]_vars

\* C17: the swap of the model's index set with the pool is confined to the
\* draw: at every estimate and inlier selection, at the loop head and at
\* every exit of computeModel the model's index set is the full original
\* set, in its original order.
C17_FullIndexSetOutsideDraw ==
  (InRun /\ pc \in {"while", "estimate", "result", "returned"})
    => indices_ = IndexSet(N)

\* an estimate is due after a draw from a pool smaller than the index set
C17_Witness ==
  /\ InRun /\ pc = "estimate"
  /\ Len(index_pool) < N
  /\ Range(selection) \subseteq Range(index_pool)
  /\ indices_ = IndexSet(N)

\* C18: in a trial whose index exceeds T'_n the selection handed to the
\* estimate has exactly m elements, the first m - 1 as drawn and the last the
\* newest element of the pool (rank n - 1 of the index set) in place of the
\* last drawn one; in any other trial it is the drawn selection unchanged.
C18_ForcedInclusionOfNewest ==
  [][(InRun /\ N >= m /\ pc = "step2" /\ pc' = "estimate")
       => IF T_prime_n < iterations_
          THEN /\ Len(selection') = m
               /\ selection'[m] = index_pool[n]
               /\ selection'[m] = indices_'[n]
               /\ \E drawn \in getSamples(index_pool, m) \ {<<>>} :
                    Front(drawn) = Front(selection')
          ELSE selection' \in getSamples(index_pool, m) \ {<<>>}]_vars

\* an estimate is due in a trial past T'_n on a sample of two elements whose
\* last is the newest element of the pool
C18_Witness ==
  /\ InRun /\ N >= m /\ pc = "estimate"
  /\ T_prime_n < iterations_
  /\ m = 2
  /\ selection[m] = index_pool[n]

CandidatesBefore(inl, at) == {p \in {i + 1 : i \in inl} : at = 0 \/ p > at}

\* C20 as claimed: the scan of a new best stops at the first candidate pool
\* size below m: no candidate smaller than m is evaluated, and every
\* candidate of size m or more that the descending scan reaches before a stop
\* is evaluated.
C20_ScanStopsBelowM ==
  [][(InRun /\ I_N_best' > I_N_best)
       => LET t == PossibleBestTrace(inliers_', N, m, epsilon_n_star)
          IN /\ \A p \in t.evaluated : p >= m
             /\ t.stop = "small" => t.at < m]_vars

\* C20 as the code has it: the scan of a new best stops at the first
\* candidate pool size of m or less: no candidate of size m or less is
\* evaluated, every candidate reached before the stop was evaluated, and the
\* candidate that fails the feasibility bound is the last one evaluated.
C20_ScanStopsAtMOrBelow ==
  [][(InRun /\ I_N_best' > I_N_best)
       => LET t == PossibleBestTrace(inliers_', N, m, epsilon_n_star)
          IN /\ \A p \in t.evaluated : p > m
             /\ t.stop = "small" => t.at <= m
             /\ t.evaluated
                  = CandidatesBefore(inliers_', t.at)
                      \cup (IF t.stop = "bound" THEN {t.at} ELSE {})
             /\ t.best = PossibleBest(inliers_', N, m, epsilon_n_star)]_vars

\* a new best whose scan evaluated a candidate and then ended at a candidate
\* of exactly m elements
C20_Witness ==
  /\ InRun /\ I_N_best > 0 /\ I_N = I_N_best
  /\ LET t == PossibleBestTrace(inliers_, N, m, InitialEpsilon(N))
     IN t.stop = "small" /\ t.at = m /\ t.evaluated # {}

\* C21: with a draw of m pairwise distinct indices of the current pool,
\* every selection passed to the coefficient estimate consists of m pairwise
\* distinct indices that all belong to the current pool, also in the trials
\* where the newest pool element replaces the last drawn one.
C21_SelectionDistinctInPool ==
  (InRun /\ N >= m /\ pc = "estimate")
    => /\ Len(selection) = m
       /\ Cardinality(Range(selection)) = m
       /\ Range(selection) \subseteq Range(index_pool)

\* C22: in a run with N > m the iteration counter is at most T'_n at the
\* sampling step of every trial (in every trial where the counter equals
\* T'_n the pool grows and T'_n increases by at least 1), so that the forced
\* inclusion, taken when T'_n < iterations_, is never taken; among the runs
\* with N >= m it is taken only with N = m.
C22_NoForcedInclusionAboveM ==
  /\ [](((InRun /\ N > m /\ pc \in {"step2", "estimate"})
           => iterations_ <= T_prime_n)
        /\ ((InRun /\ N >= m /\ pc \in {"step2", "estimate"}
               /\ T_prime_n < iterations_) => N = m))
  /\ [][(InRun /\ N > m /\ pc = "while" /\ pc' = "step2"
           /\ iterations_ = T_prime_n)
          => (n' = n + 1 /\ T_prime_n' >= T_prime_n + 1)]_vars

\* a trial of a run with N > m samples after the pool has grown at the
\* trial whose index was T'_n
C22_Witness ==
  /\ InRun /\ N > m /\ pc = "step2"
  /\ n > m
  /\ iterations_ >= 1
  /\ iterations_ <= T_prime_n

\* C23: results do not leak between runs on one engine: a run with the
\* threshold set in which no trial is accepted as best returns false with an
\* empty inlier set, and reports no best selection or coefficients left by
\* an earlier successful run on the same engine.
C23_NoLeakBetweenRuns ==
  (InRun /\ N >= m /\ pc = "returned" /\ I_N_best = 0)
    => /\ ret = "false"
       /\ inliers_ = {}

====
